---- MODULE Spec2Model ----
\* EduMentor backend (backend/server.py): the request handlers of the FastAPI
\* application over the MongoDB collections, the upload directory and the AI
\* gateway.  Every request is a task that is interleaved with the others at
\* its awaits; one action is one segment of a handler between two awaits.
EXTENDS Integers, Sequences, FiniteSets, TLC

VARIABLES
    users,          \* db.users, in insertion order
    materials,      \* db.study_materials, in insertion order
    quizzes,        \* db.quizzes, in insertion order
    flashcards,     \* db.flashcards, in insertion order
    quiz_responses, \* db.quiz_responses, in insertion order
    files,          \* file names present under UPLOAD_DIR
    clock,          \* datetime.now(timezone.utc), in minutes
    nextId,         \* number of uuid.uuid4() values drawn so far
    reqs,           \* the requests in flight, each at one of its awaits
    resp            \* the response the last step sent, with the request it answers

vars == <<users, materials, quizzes, flashcards, quiz_responses, files,
          clock, nextId, reqs, resp>>

stores == <<users, materials, quizzes, flashcards, quiz_responses, files>>

----------------------------------------------------------------------------
\* Bounds of the model.

MaxReq == 2          \* requests in flight at once
MaxUsers == 2        \* documents in db.users
MaxClock == 45       \* last minute the clock reaches
TickMinutes == 40    \* minutes between two observations of the clock
MaxFiles == 1        \* files under UPLOAD_DIR
MaxQuizzes == 1      \* documents in db.quizzes
MaxFlashcards == 1   \* documents in db.flashcards before a batch is asked for
MaxResponses == 1    \* documents in db.quiz_responses
MaxAnswers == 1      \* pairs in one submission
MaxGradeQuestions == 50  \* questions of the quiz a graded submission answers
MaxRepeats == 1      \* pairs of a graded submission that answer question 1 again

Emails == {"a@x.io", "b@x.io"}
Passwords == {"pw1", "pw2"}
FullNames == {"Ann", "Bob"}

None == [none |-> TRUE]
NoSuchId == 0        \* an id uuid4 never returned

Range(seq) == {seq[i] : i \in 1..Len(seq)}

----------------------------------------------------------------------------
\* Security helpers.

ACCESS_TOKEN_EXPIRE_MINUTES == 30
DEFAULT_EXPIRE_MINUTES == 15

\* passlib bcrypt: the hash is one-way and is checked by re-hashing
get_password_hash(password) == <<"bcrypt", password>>

verify_password(plain_password, hashed_password) ==
    hashed_password = get_password_hash(plain_password)

\* expires_delta = 0 stands for both None and timedelta(0), which are falsy
create_access_token(data, expires_delta, now) ==
    LET expire == IF expires_delta # 0 THEN now + expires_delta
                  ELSE now + DEFAULT_EXPIRE_MINUTES
    IN [sub |-> data.sub, exp |-> expire, sig |-> "HS256"]

\* jwt.decode that skips the exp claim
jwt_decode_no_exp(token, now) ==
    IF token.sig # "HS256" THEN None
    ELSE [sub |-> token.sub]

\* jwt.decode that skips the signature
jwt_decode_no_sig(token, now) ==
    IF token.exp <= now THEN None
    ELSE [sub |-> token.sub]

\* jwt.decode with SECRET_KEY: the signature is verified, then the exp claim
jwt_decode(token, now) ==
    IF token.sig # "HS256" THEN None
    ELSE IF token.exp <= now THEN None
    ELSE [sub |-> token.sub]

\* find_one: the first document, in insertion order, among the positions
\* hits of the documents that match the filter
find_one(coll, hits) ==
    IF hits = {} THEN None
    ELSE coll[CHOOSE i \in hits : \A j \in hits : i <= j]

\* the User the bearer token resolves to, or None for the 401
get_current_user(token, now, us) ==
    LET payload == jwt_decode(token, now)
    IN IF payload = None THEN None
       ELSE IF "sub" \notin DOMAIN payload THEN None
       ELSE find_one(us, {i \in DOMAIN us : us[i].id = payload.sub})

----------------------------------------------------------------------------
\* Strings are sequences of one-character strings.

UpperCase == <<"A", "B", "C", "D", "E", "F", "G", "H", "I", "J", "K", "L", "M",
               "N", "O", "P", "Q", "R", "S", "T", "U", "V", "W", "X", "Y", "Z">>
LowerCase == <<"a", "b", "c", "d", "e", "f", "g", "h", "i", "j", "k", "l", "m",
               "n", "o", "p", "q", "r", "s", "t", "u", "v", "w", "x", "y", "z">>
Whitespace == {" ", "\t", "\n"}

\* str.lower()
lower(str) ==
    [i \in 1..Len(str) |->
        IF \E k \in 1..26 : UpperCase[k] = str[i]
        THEN LowerCase[CHOOSE k \in 1..26 : UpperCase[k] = str[i]]
        ELSE str[i]]

\* str.strip()
strip(str) ==
    LET solid == {i \in 1..Len(str) : str[i] \notin Whitespace}
    IN IF solid = {} THEN <<>>
       ELSE SubSeq(str, CHOOSE i \in solid : \A j \in solid : i <= j,
                        CHOOSE i \in solid : \A j \in solid : j <= i)

\* sub in str
contains(sub, str) ==
    \E i \in 0..(Len(str) - Len(sub)) : SubSeq(str, i + 1, i + Len(sub)) = sub

\* str.split(".")[-1]
split_last(str) ==
    LET dots == {i \in 1..Len(str) : str[i] = "."}
    IN IF dots = {} THEN str
       ELSE SubSeq(str, (CHOOSE i \in dots : \A j \in dots : j <= i) + 1, Len(str))

----------------------------------------------------------------------------
\* Python floats (IEEE 754 binary64).  A positive float is its 53-bit
\* significand, held in three limbs a (17 bits), b and c (18 bits each), and
\* the exponent exp of its leading bit: (a * 2^36 + b * 2^18 + c) * 2^(exp - 52).

RECURSIVE Pow2(_)
Pow2(n) == IF n = 0 THEN 1 ELSE 2 * Pow2(n - 1)

LimbBits == 18
TopBits == 17
Limb == Pow2(LimbBits)
FloatZero == [a |-> 0, b |-> 0, c |-> 0, exp |-> 0]

\* k / b * 2^-e in [1, 2), for k >= b
RECURSIVE ExpUp(_, _, _)
ExpUp(k, b, e) ==
    IF 2 * b <= k THEN ExpUp(k, 2 * b, e + 1) ELSE [num |-> k, den |-> b, exp |-> e]

\* a / n * 2^-e in [1, 2), for a < n
RECURSIVE ExpDown(_, _, _)
ExpDown(a, n, e) ==
    IF a >= n THEN [num |-> a, den |-> n, exp |-> e] ELSE ExpDown(2 * a, n, e - 1)

\* the next significand up, renormalised when it carries out of 53 bits
RoundUp(x) ==
    LET c1 == x.c + 1
        b1 == IF c1 = Limb THEN x.b + 1 ELSE x.b
        a1 == IF b1 = Limb THEN x.a + 1 ELSE x.a
    IN IF a1 = Pow2(TopBits)
       THEN [a |-> Pow2(TopBits - 1), b |-> 0, c |-> 0, exp |-> x.exp + 1]
       ELSE [a |-> a1, b |-> b1 % Limb, c |-> c1 % Limb, exp |-> x.exp]

\* int / int: the quotient rounded to the nearest float, ties to even
TrueDiv(k, n) ==
    IF k = 0 THEN FloatZero
    ELSE LET s == IF k >= n THEN ExpUp(k, n, 0) ELSE ExpDown(k, n, 0)
             ta == (s.num - s.den) * Pow2(TopBits - 1)
             tb == (ta % s.den) * Limb
             tc == (tb % s.den) * Limb
             rem == tc % s.den
             x == [a |-> Pow2(TopBits - 1) + ta \div s.den, b |-> tb \div s.den,
                   c |-> tc \div s.den, exp |-> s.exp]
             up == \/ 2 * rem > s.den
                   \/ 2 * rem = s.den /\ x.c % 2 = 1
         IN IF up THEN RoundUp(x) ELSE x

\* bits the product's top limb pa has beyond TopBits
RECURSIVE ExtraBits(_, _)
ExtraBits(pa, d) == IF pa < Pow2(TopBits + d) THEN d ELSE ExtraBits(pa, d + 1)

\* float * int: the product rounded to the nearest float, ties to even
FloatMul(x, m) ==
    IF x = FloatZero THEN FloatZero
    ELSE LET pc == x.c * m
             pb == x.b * m + pc \div Limb
             pa == x.a * m + pb \div Limb
             c0 == pc % Limb
             b0 == pb % Limb
             d == ExtraBits(pa, 0)
             D == Pow2(d)
             kept == [a |-> pa \div D,
                      b |-> b0 \div D + (pa % D) * (Limb \div D),
                      c |-> c0 \div D + (b0 % D) * (Limb \div D),
                      exp |-> x.exp + d]
             dropped == c0 % D
             up == d > 0 /\ (\/ 2 * dropped > D
                             \/ 2 * dropped = D /\ kept.c % 2 = 1)
         IN IF up THEN RoundUp(kept) ELSE kept

\* int(float): truncation of a non-negative float
FloatToInt(x) ==
    IF x = FloatZero \/ x.exp < 0 THEN 0
    ELSE IF x.exp <= TopBits - 1 THEN x.a \div Pow2(TopBits - 1 - x.exp)
    ELSE x.a * Pow2(x.exp - (TopBits - 1))
         + x.b \div Pow2(LimbBits - (x.exp - (TopBits - 1)))

----------------------------------------------------------------------------
\* Grading of a submission (submit_quiz).

\* question["answer"].lower().strip() in user_ans.lower().strip()
answer_matches(question, user_ans) ==
    contains(strip(lower(question.answer)), strip(lower(user_ans)))

\* next((q for q in quiz["questions"] if q["id"] == question_id), None)
find_question(questions, question_id) ==
    find_one(questions, {i \in DOMAIN questions : questions[i].id = question_id})

\* the for loop over quiz_response.user_answers: one count per matching pair
count_correct(questions, user_answers) ==
    Cardinality({i \in 1..Len(user_answers) :
                    LET question == find_question(questions, user_answers[i].question_id)
                    IN question # None /\ answer_matches(question, user_answers[i].answer)})

\* int((correct_answers / total_questions) * 100), for total_questions > 0;
\* each operation is applied to the value of the one before it
compute_score(correct_answers, total_questions) ==
    CHOOSE score \in
        {FloatToInt(product) :
            product \in {FloatMul(quotient, 100) :
                            quotient \in {TrueDiv(k, n) : k \in {correct_answers},
                                                          n \in {total_questions}}}} : TRUE

----------------------------------------------------------------------------
\* Requests and responses.

NoToken == [sub |-> NoSuchId, exp |-> 0, sig |-> "none"]

Idle == [op |-> "idle", pc |-> "idle", token |-> NoToken, user |-> NoSuchId,
         arg |-> None, loc |-> None, ai |-> 0, file |-> None]

NewReq(op, token, arg) == [Idle EXCEPT !.op = op, !.token = token, !.arg = arg]

NoResp == [op |-> "none", token |-> NoToken, user |-> NoSuchId, arg |-> None,
           status |-> 0, body |-> None, ai |-> 0, file |-> None]

Response(req, status, body) ==
    [op |-> req.op, token |-> req.token, user |-> req.user, arg |-> req.arg,
     status |-> status, body |-> body, ai |-> req.ai, file |-> req.file]

Slots == 1..MaxReq
Free(r) == reqs[r].op = "idle"

InFlight(op) == Cardinality({r \in Slots : reqs[r].op = op})

\* the request in slot r stays in flight, at its next await
Continue(r, req) ==
    /\ reqs' = [reqs EXCEPT ![r] = req]
    /\ resp' = NoResp

\* the request in slot r is answered
Reply(r, response) ==
    /\ reqs' = [reqs EXCEPT ![r] = Idle]
    /\ resp' = response

\* The tokens a client can hold: login has no effect but the token it returns,
\* so a token is in a client's hands for every stored user and every time since
\* that user's registration.
IssuedTokens ==
    UNION {{create_access_token([sub |-> u.id], ACCESS_TOKEN_EXPIRE_MINUTES, t) :
               t \in {t \in u.created_at..clock : t % TickMinutes = 0}} :
           u \in Range(users)}
ForgedTokens ==
    {[sub |-> u.id, exp |-> MaxClock + ACCESS_TOKEN_EXPIRE_MINUTES, sig |-> "forged"] :
        u \in Range(users)}
Malformed == [sub |-> NoSuchId, exp |-> 0, sig |-> "malformed"]
BearerTokens == IssuedTokens \cup ForgedTokens \cup {Malformed}

----------------------------------------------------------------------------
\* POST /api/auth/register

\* register without the lookup of the email
register_no_lookup(r, email, password, full_name) ==
    /\ Free(r)
    /\ Len(users) + InFlight("register") < MaxUsers
    /\ Continue(r, [NewReq("register", NoToken,
                            [email |-> email, password |-> password, full_name |-> full_name])
                    EXCEPT !.pc = "insert"])
    /\ UNCHANGED <<stores, clock, nextId>>

\* the request arrives and db.users.find_one({"email": ...}) is answered
register(r, email, password, full_name) ==
    /\ Free(r)
    /\ Len(users) + InFlight("register") < MaxUsers
    /\ LET req == NewReq("register", NoToken,
                         [email |-> email, password |-> password, full_name |-> full_name])
           existing_user == find_one(users, {i \in DOMAIN users : users[i].email = email})
       IN IF existing_user # None
          THEN Reply(r, Response(req, 400, [detail |-> "Email already registered"]))
          ELSE Continue(r, [req EXCEPT !.pc = "insert"])
    /\ UNCHANGED <<stores, clock, nextId>>

\* a write that replaces the stored user of the email, if there is one
register_upsert(r) ==
    /\ reqs[r].op = "register" /\ reqs[r].pc = "insert"
    /\ LET a == reqs[r].arg
           new_user == [id |-> nextId + 1, email |-> a.email, full_name |-> a.full_name,
                        created_at |-> clock,
                        hashed_password |-> get_password_hash(a.password)]
           same == {i \in DOMAIN users : users[i].email = a.email}
           access_token == create_access_token([sub |-> new_user.id],
                                               ACCESS_TOKEN_EXPIRE_MINUTES, clock)
       IN /\ users' = IF same = {} THEN Append(users, new_user)
                      ELSE [i \in DOMAIN users |-> IF i \in same THEN new_user ELSE users[i]]
          /\ nextId' = nextId + 1
          /\ Reply(r, Response(reqs[r], 200, [access_token |-> access_token]))
    /\ UNCHANGED <<materials, quizzes, flashcards, quiz_responses, files, clock>>

\* db.users.insert_one(user_dict) is answered and the token is returned
register_insert(r) ==
    /\ reqs[r].op = "register" /\ reqs[r].pc = "insert"
    /\ LET a == reqs[r].arg
           new_user == [id |-> nextId + 1, email |-> a.email, full_name |-> a.full_name,
                        created_at |-> clock,
                        hashed_password |-> get_password_hash(a.password)]
           access_token == create_access_token([sub |-> new_user.id],
                                               ACCESS_TOKEN_EXPIRE_MINUTES, clock)
       IN /\ users' = Append(users, new_user)
          /\ nextId' = nextId + 1
          /\ Reply(r, Response(reqs[r], 200, [access_token |-> access_token]))
    /\ UNCHANGED <<materials, quizzes, flashcards, quiz_responses, files, clock>>

\* POST /api/auth/login
login(r, email, password) ==
    /\ Free(r)
    /\ LET req == NewReq("login", NoToken, [email |-> email, password |-> password])
           user == find_one(users, {i \in DOMAIN users : users[i].email = email})
       IN IF user = None \/ ~verify_password(password, user.hashed_password)
          THEN Reply(r, Response(req, 401, [detail |-> "Incorrect email or password"]))
          ELSE LET access_token == create_access_token([sub |-> user.id],
                                                       ACCESS_TOKEN_EXPIRE_MINUTES, clock)
               IN Reply(r, Response(req, 200, [access_token |-> access_token]))
    /\ UNCHANGED <<stores, clock, nextId>>

\* the Depends(get_current_user) gate of every other endpoint: the request
\* arrives, the token is decoded and db.users.find_one({"id": ...}) is answered
authenticate(r, op, token, arg) ==
    /\ Free(r)
    /\ LET req == NewReq(op, token, arg)
           current_user == get_current_user(token, clock, users)
       IN IF current_user = None
          THEN Reply(r, Response(req, 401, [detail |-> "Could not validate credentials"]))
          ELSE Continue(r, [req EXCEPT !.pc = "body", !.user = current_user.id])
    /\ UNCHANGED <<stores, clock, nextId>>

\* GET /api/auth/me
get_me(r) ==
    /\ reqs[r].op = "get_me" /\ reqs[r].pc = "body"
    /\ Reply(r, Response(reqs[r], 200,
                         find_one(users, {i \in DOMAIN users : users[i].id = reqs[r].user})))
    /\ UNCHANGED <<stores, clock, nextId>>

----------------------------------------------------------------------------
\* AI gateway (LlmChat.send_message).  A reply either raises or is a text; the
\* text is a JSON document ("json"), a JSON document inside other text
\* ("wrapped"), braces around something that is not JSON ("broken") or text
\* without braces ("prose").

Raised == [raised |-> TRUE, form |-> "none", data |-> None]
Text(form, data) == [raised |-> FALSE, form |-> form, data |-> data]

\* json.loads(response), then json.loads of the re.search(r'\{.*\}') match;
\* None stands for the exception either of them ends in
parse_json_response(reply) ==
    IF reply.form = "json" THEN reply.data
    ELSE IF reply.form = "wrapped" THEN reply.data
    ELSE None

\* a gateway that takes a document without the "questions" list for an empty quiz
generate_quiz_with_ai_lenient(reply, question_type, firstId) ==
    IF reply.raised THEN None
    ELSE LET quiz_data == parse_json_response(reply)
         IN IF quiz_data = None THEN None
            ELSE [questions |-> <<>>]

\* the list generate_quiz_with_ai returns, or None for its HTTPException(500)
generate_quiz_with_ai(reply, question_type, firstId) ==
    IF reply.raised THEN None
    ELSE LET quiz_data == parse_json_response(reply)
         IN IF quiz_data = None THEN None
            ELSE IF "questions" \notin DOMAIN quiz_data THEN None
            ELSE IF \E i \in 1..Len(quiz_data.questions) :
                       {"question", "answer", "explanation"} \ DOMAIN quiz_data.questions[i] # {}
                 THEN None
            ELSE [questions |->
                    [i \in 1..Len(quiz_data.questions) |->
                        [id |-> firstId + i,
                         question |-> quiz_data.questions[i].question,
                         answer |-> quiz_data.questions[i].answer,
                         explanation |-> quiz_data.questions[i].explanation,
                         question_type |-> question_type]]]

\* the list generate_flashcards_with_ai returns, or None for its HTTPException(500)
generate_flashcards_with_ai(reply) ==
    IF reply.raised THEN None
    ELSE LET flashcard_data == parse_json_response(reply)
         IN IF flashcard_data = None THEN None
            ELSE IF "flashcards" \notin DOMAIN flashcard_data THEN None
            ELSE IF \E i \in 1..Len(flashcard_data.flashcards) :
                       {"question", "answer", "explanation"} \ DOMAIN flashcard_data.flashcards[i] # {}
                 THEN None
            ELSE [flashcards |-> flashcard_data.flashcards]

----------------------------------------------------------------------------
\* POST /api/materials/upload

\* an allow-list that lets executables through
allowed_extensions_exe ==
    {<<"p", "d", "f">>, <<"d", "o", "c", "x">>, <<"p", "p", "t", "x">>, <<"j", "p", "g">>,
     <<"j", "p", "e", "g">>, <<"p", "n", "g">>, <<"t", "x", "t">>, <<"e", "x", "e">>}

allowed_extensions ==
    {<<"p", "d", "f">>, <<"d", "o", "c", "x">>, <<"p", "p", "t", "x">>, <<"j", "p", "g">>,
     <<"j", "p", "e", "g">>, <<"p", "n", "g">>, <<"t", "x", "t">>}

\* an upload that leaves the copy of the file for later
upload_material_unsaved(r) ==
    /\ reqs[r].op = "upload_material" /\ reqs[r].pc = "body"
    /\ LET file_extension == lower(split_last(reqs[r].arg.filename))
           file_path == [id |-> nextId + 1, ext |-> file_extension]
       IN IF file_extension \notin allowed_extensions
          THEN /\ Reply(r, Response(reqs[r], 400, [detail |-> "File type not supported"]))
               /\ UNCHANGED nextId
          ELSE /\ nextId' = nextId + 1
               /\ Continue(r, [reqs[r] EXCEPT !.pc = "extract", !.file = file_path, !.ai = 1])
    /\ UNCHANGED <<stores, clock>>

\* the extension is validated and the file is copied under UPLOAD_DIR
upload_material(r) ==
    /\ reqs[r].op = "upload_material" /\ reqs[r].pc = "body"
    /\ LET file_extension == lower(split_last(reqs[r].arg.filename))
           file_path == [id |-> nextId + 1, ext |-> file_extension]
       IN IF file_extension \notin allowed_extensions
          THEN /\ Reply(r, Response(reqs[r], 400, [detail |-> "File type not supported"]))
               /\ UNCHANGED <<files, nextId>>
          ELSE /\ files' = files \cup {file_path}
               /\ nextId' = nextId + 1
               /\ Continue(r, [reqs[r] EXCEPT !.pc = "extract", !.file = file_path, !.ai = 1])
    /\ UNCHANGED <<users, materials, quizzes, flashcards, quiz_responses, clock>>

\* extract_text_from_file returns and the StudyMaterial is built
upload_material_extracted(r, reply) ==
    /\ reqs[r].op = "upload_material" /\ reqs[r].pc = "extract"
    /\ IF reply.raised
       THEN /\ Reply(r, Response(reqs[r], 500, [detail |-> "Error extracting text"]))
            /\ UNCHANGED nextId
       ELSE LET material == [id |-> nextId + 1, user_id |-> reqs[r].user,
                             title |-> reqs[r].arg.title, file_type |-> reqs[r].file.ext,
                             extracted_text |-> reply.data.text]
            IN /\ nextId' = nextId + 1
               /\ Continue(r, [reqs[r] EXCEPT !.pc = "insert", !.loc = material])
    /\ UNCHANGED <<stores, clock>>

\* db.study_materials.insert_one(material.dict()) is answered
upload_material_insert(r) ==
    /\ reqs[r].op = "upload_material" /\ reqs[r].pc = "insert"
    /\ materials' = Append(materials, reqs[r].loc)
    /\ Reply(r, Response(reqs[r], 200,
                         [message |-> "Material uploaded successfully",
                          material_id |-> reqs[r].loc.id]))
    /\ UNCHANGED <<users, quizzes, flashcards, quiz_responses, files, clock, nextId>>

\* GET /api/materials
get_materials(r) ==
    /\ reqs[r].op = "get_materials" /\ reqs[r].pc = "body"
    /\ Reply(r, Response(reqs[r], 200,
                         [items |-> SelectSeq(materials, LAMBDA m : m.user_id = reqs[r].user)]))
    /\ UNCHANGED <<stores, clock, nextId>>

\* the lookup by id alone, without the owner
find_material_by_id(material_id, user_id) ==
    find_one(materials, {i \in DOMAIN materials : materials[i].id = material_id})

\* db.study_materials.find_one({"id": material_id, "user_id": current_user.id})
find_material(material_id, user_id) ==
    find_one(materials, {i \in DOMAIN materials : materials[i].id = material_id /\ materials[i].user_id = user_id})

\* GET /api/materials/{material_id}
get_material(r) ==
    /\ reqs[r].op = "get_material" /\ reqs[r].pc = "body"
    /\ LET material == find_material(reqs[r].arg.material_id, reqs[r].user)
       IN IF material = None
          THEN Reply(r, Response(reqs[r], 404, [detail |-> "Material not found"]))
          ELSE Reply(r, Response(reqs[r], 200, material))
    /\ UNCHANGED <<stores, clock, nextId>>

----------------------------------------------------------------------------
\* POST /api/quiz/generate

\* a gateway client shared by the requests, one call at a time: the request
\* waits while another request is suspended on a gateway call
generate_quiz_locked(r) ==
    /\ reqs[r].op = "generate_quiz" /\ reqs[r].pc = "body"
    /\ \A o \in Slots \ {r} : reqs[o].pc \notin {"extract", "generate", "chat"}
    /\ LET material == find_material(reqs[r].arg.material_id, reqs[r].user)
       IN IF material = None
          THEN Reply(r, Response(reqs[r], 404, [detail |-> "Material not found"]))
          ELSE Continue(r, [reqs[r] EXCEPT !.pc = "generate", !.loc = material, !.ai = 1])
    /\ UNCHANGED <<stores, clock, nextId>>

\* the material is looked up and the gateway is called
generate_quiz(r) ==
    /\ reqs[r].op = "generate_quiz" /\ reqs[r].pc = "body"
    /\ LET material == find_material(reqs[r].arg.material_id, reqs[r].user)
       IN IF material = None
          THEN Reply(r, Response(reqs[r], 404, [detail |-> "Material not found"]))
          ELSE Continue(r, [reqs[r] EXCEPT !.pc = "generate", !.loc = material, !.ai = 1])
    /\ UNCHANGED <<stores, clock, nextId>>

\* generate_quiz_with_ai returns and the Quiz is built
generate_quiz_generated(r, reply) ==
    /\ reqs[r].op = "generate_quiz" /\ reqs[r].pc = "generate"
    /\ LET a == reqs[r].arg
           generated == generate_quiz_with_ai(reply, a.question_type, nextId)
       IN IF generated = None
          THEN /\ Reply(r, Response(reqs[r], 500, [detail |-> "Error generating quiz"]))
               /\ UNCHANGED nextId
          ELSE LET quiz == [id |-> nextId + Len(generated.questions) + 1,
                            material_id |-> a.material_id,
                            user_id |-> reqs[r].user,
                            title |-> <<reqs[r].loc.title, a.quiz_type>>,
                            questions |-> generated.questions,
                            quiz_type |-> a.quiz_type,
                            time_limit |-> IF a.question_type = "mcq" THEN 15 ELSE 30]
               IN /\ nextId' = nextId + Len(generated.questions) + 1
                  /\ Continue(r, [reqs[r] EXCEPT !.pc = "insert", !.loc = quiz])
    /\ UNCHANGED <<stores, clock>>

\* db.quizzes.insert_one(quiz.dict()) is answered
generate_quiz_insert(r) ==
    /\ reqs[r].op = "generate_quiz" /\ reqs[r].pc = "insert"
    /\ quizzes' = Append(quizzes, reqs[r].loc)
    /\ Reply(r, Response(reqs[r], 200, reqs[r].loc))
    /\ UNCHANGED <<users, materials, flashcards, quiz_responses, files, clock, nextId>>

----------------------------------------------------------------------------
\* POST /api/quiz/{quiz_id}/submit

\* the lookup of the quiz by id alone, without the owner
find_quiz_by_id(quiz_id, user_id) ==
    find_one(quizzes, {i \in DOMAIN quizzes : quizzes[i].id = quiz_id})

\* db.quizzes.find_one({"id": quiz_id, "user_id": current_user.id})
find_quiz(quiz_id, user_id) ==
    find_one(quizzes, {i \in DOMAIN quizzes : quizzes[i].id = quiz_id /\ quizzes[i].user_id = user_id})

\* the quiz is looked up and the submission is graded
submit_quiz(r) ==
    /\ reqs[r].op = "submit_quiz" /\ reqs[r].pc = "body"
    /\ LET a == reqs[r].arg
           quiz == find_quiz(a.quiz_id, reqs[r].user)
       IN IF quiz = None
          THEN Reply(r, Response(reqs[r], 404, [detail |-> "Quiz not found"]))
          ELSE LET total_questions == Len(quiz.questions)
                   correct_answers == count_correct(quiz.questions, a.quiz_response.user_answers)
               IN IF total_questions = 0
                  THEN \* ZeroDivisionError
                       Reply(r, Response(reqs[r], 500, [detail |-> "Internal Server Error"]))
                  ELSE Continue(r, [reqs[r] EXCEPT !.pc = "insert", !.loc =
                                      [score |-> compute_score(correct_answers, total_questions),
                                       correct_answers |-> correct_answers,
                                       total_questions |-> total_questions]])
    /\ UNCHANGED <<stores, clock, nextId>>

\* db.quiz_responses.insert_one(quiz_response.dict()) is answered
submit_quiz_insert(r) ==
    /\ reqs[r].op = "submit_quiz" /\ reqs[r].pc = "insert"
    /\ quiz_responses' = Append(quiz_responses,
                                [quiz_id |-> reqs[r].arg.quiz_response.quiz_id,
                                 user_answers |-> reqs[r].arg.quiz_response.user_answers,
                                 score |-> reqs[r].loc.score])
    /\ Reply(r, Response(reqs[r], 200, reqs[r].loc))
    /\ UNCHANGED <<users, materials, quizzes, flashcards, files, clock, nextId>>

----------------------------------------------------------------------------
\* POST /api/flashcards/generate

\* the material is looked up and the gateway is called
generate_flashcards(r) ==
    /\ reqs[r].op = "generate_flashcards" /\ reqs[r].pc = "body"
    /\ LET material == find_material(reqs[r].arg.material_id, reqs[r].user)
       IN IF material = None
          THEN Reply(r, Response(reqs[r], 404, [detail |-> "Material not found"]))
          ELSE Continue(r, [reqs[r] EXCEPT !.pc = "generate", !.loc = material, !.ai = 1])
    /\ UNCHANGED <<stores, clock, nextId>>

\* generate_flashcards_with_ai returns and the Flashcards are built
generate_flashcards_generated(r, reply) ==
    /\ reqs[r].op = "generate_flashcards" /\ reqs[r].pc = "generate"
    /\ LET generated == generate_flashcards_with_ai(reply)
       IN IF generated = None
          THEN /\ Reply(r, Response(reqs[r], 500, [detail |-> "Error generating flashcards"]))
               /\ UNCHANGED nextId
          ELSE LET flashcard_data == generated.flashcards
                   batch == [i \in 1..Len(flashcard_data) |->
                               [id |-> nextId + i,
                                material_id |-> reqs[r].arg.material_id,
                                user_id |-> reqs[r].user,
                                question |-> flashcard_data[i].question,
                                answer |-> flashcard_data[i].answer,
                                explanation |-> flashcard_data[i].explanation]]
               IN /\ nextId' = nextId + Len(flashcard_data)
                  /\ Continue(r, [reqs[r] EXCEPT !.pc = "insert", !.loc = [flashcards |-> batch]])
    /\ UNCHANGED <<stores, clock>>

\* db.flashcards.insert_many(flashcard_dicts) is answered; it raises on an empty list
generate_flashcards_insert(r) ==
    /\ reqs[r].op = "generate_flashcards" /\ reqs[r].pc = "insert"
    /\ IF reqs[r].loc.flashcards = <<>>
       THEN /\ Reply(r, Response(reqs[r], 500, [detail |-> "Internal Server Error"]))
            /\ UNCHANGED flashcards
       ELSE /\ flashcards' = flashcards \o reqs[r].loc.flashcards
            /\ Reply(r, Response(reqs[r], 200, [items |-> reqs[r].loc.flashcards]))
    /\ UNCHANGED <<users, materials, quizzes, quiz_responses, files, clock, nextId>>

\* GET /api/flashcards/{material_id}
get_flashcards(r) ==
    /\ reqs[r].op = "get_flashcards" /\ reqs[r].pc = "body"
    /\ Reply(r, Response(reqs[r], 200,
                         [items |-> SelectSeq(flashcards,
                                              LAMBDA f : /\ f.material_id = reqs[r].arg.material_id
                                                         /\ f.user_id = reqs[r].user)]))
    /\ UNCHANGED <<stores, clock, nextId>>

----------------------------------------------------------------------------
\* POST /api/chat/ask

\* the material is looked up and the gateway is called
ask_question(r) ==
    /\ reqs[r].op = "ask_question" /\ reqs[r].pc = "body"
    /\ LET material == find_material(reqs[r].arg.material_id, reqs[r].user)
       IN IF material = None
          THEN Reply(r, Response(reqs[r], 404, [detail |-> "Material not found"]))
          ELSE Continue(r, [reqs[r] EXCEPT !.pc = "chat", !.loc = material, !.ai = 1])
    /\ UNCHANGED <<stores, clock, nextId>>

\* chat.send_message returns
ask_question_answered(r, reply) ==
    /\ reqs[r].op = "ask_question" /\ reqs[r].pc = "chat"
    /\ IF reply.raised
       THEN Reply(r, Response(reqs[r], 500, [detail |-> "Error processing question"]))
       ELSE Reply(r, Response(reqs[r], 200,
                              [question |-> reqs[r].arg.question, answer |-> reply.data.text]))
    /\ UNCHANGED <<stores, clock, nextId>>

----------------------------------------------------------------------------
\* time passes
Tick ==
    /\ clock + TickMinutes <= MaxClock
    /\ clock' = clock + TickMinutes
    /\ resp' = NoResp
    /\ UNCHANGED <<stores, nextId, reqs>>

----------------------------------------------------------------------------

Init ==
    /\ users = <<>>
    /\ materials = <<>>
    /\ quizzes = <<>>
    /\ flashcards = <<>>
    /\ quiz_responses = <<>>
    /\ files = {}
    /\ clock = 0
    /\ nextId = 0
    /\ reqs = [r \in Slots |-> Idle]
    /\ resp = NoResp

\* What the clients send and what the AI gateway answers.

Titles == {"Notes"}
FileNames == {<<"n", ".", "T", "x", "t">>, <<"n", ".", "t", "x", "t", ".", "e", "x", "e">>,
              <<"t", "x", "t">>}
Questions == {"Why?"}
QuizTypes == {"practice"}
QuestionTypes == {"mcq"}

MaterialIds == {m.id : m \in Range(materials)} \cup {NoSuchId}
QuizIds == {q.id : q \in Range(quizzes)} \cup {NoSuchId}
QuestionIds == UNION {{q.id : q \in Range(quiz.questions)} : quiz \in Range(quizzes)} \cup {NoSuchId}

UserAnswers == {<<"a", "B", " ">>, <<"b">>}
RECURSIVE SeqsUpTo(_, _)
SeqsUpTo(S, n) ==
    IF n = 0 THEN {<<>>}
    ELSE LET shorter == SeqsUpTo(S, n - 1)
         IN shorter \cup {Append(q, x) : q \in {q \in shorter : Len(q) = n - 1}, x \in S}
Submissions ==
    [quiz_id : QuizIds,
     user_answers : SeqsUpTo([question_id : QuestionIds, answer : UserAnswers], MaxAnswers)]

Card(answer) == [question |-> "Q", answer |-> answer, explanation |-> "E"]
ExtractReplies == {Raised, Text("prose", [text |-> "Extracted text"])}
ChatReplies == {Raised, Text("prose", [text |-> "Because."])}
QuizReplies ==
    {Raised, Text("prose", None), Text("broken", None),
     Text("json", [quiz |-> <<>>]),
     Text("json", [questions |-> <<[question |-> "Q"]>>]),
     Text("json", [questions |-> <<>>]),
     Text("wrapped", [questions |-> <<Card(<<" ", "A", "b">>)>>])}
FlashcardReplies ==
    {Raised, Text("prose", None), Text("broken", None),
     Text("json", [cards |-> <<>>]),
     Text("json", [flashcards |-> <<>>]),
     Text("wrapped", [flashcards |-> <<Card(<<"a">>)>>])}

AuthNext(passwords, names) ==
    \/ \E r \in Slots, e \in Emails, p \in passwords, n \in names : register(r, e, p, n)
    \/ \E r \in Slots : register_insert(r)
    \/ \E r \in Slots, e \in Emails, p \in passwords : login(r, e, p)
    \/ \E r \in Slots, t \in BearerTokens : authenticate(r, "get_me", t, None)
    \/ \E r \in Slots : get_me(r)
    \/ Tick

\* the slot the requests to the token-gated routes are taken in, one at a time
Serial == {1}

MaterialNext ==
    \/ \E r \in Serial, t \in BearerTokens, title \in Titles, name \in FileNames :
          /\ Cardinality(files) + InFlight("upload_material") < MaxFiles
          /\ authenticate(r, "upload_material", t, [title |-> title, filename |-> name])
    \/ \E r \in Serial : upload_material(r)
    \/ \E r \in Serial, reply \in ExtractReplies : upload_material_extracted(r, reply)
    \/ \E r \in Serial : upload_material_insert(r)
    \/ \E r \in Serial, t \in BearerTokens : authenticate(r, "get_materials", t, None)
    \/ \E r \in Serial : get_materials(r)
    \/ \E r \in Serial, t \in BearerTokens, m \in MaterialIds :
          authenticate(r, "get_material", t, [material_id |-> m])
    \/ \E r \in Serial : get_material(r)

QuizNext ==
    \/ \E r \in Serial, t \in BearerTokens, m \in MaterialIds, qt \in QuizTypes, kt \in QuestionTypes :
          /\ Len(quizzes) + InFlight("generate_quiz") < MaxQuizzes
          /\ authenticate(r, "generate_quiz", t,
                          [material_id |-> m, quiz_type |-> qt, question_type |-> kt])
    \/ \E r \in Serial : generate_quiz(r)
    \/ \E r \in Serial, reply \in QuizReplies : generate_quiz_generated(r, reply)
    \/ \E r \in Serial : generate_quiz_insert(r)
    \/ \E r \in Serial, t \in BearerTokens, q \in QuizIds, sub \in Submissions :
          /\ Len(quiz_responses) + InFlight("submit_quiz") < MaxResponses
          /\ authenticate(r, "submit_quiz", t, [quiz_id |-> q, quiz_response |-> sub])
    \/ \E r \in Serial : submit_quiz(r)
    \/ \E r \in Serial : submit_quiz_insert(r)

FlashcardNext ==
    \/ \E r \in Serial, t \in BearerTokens, m \in MaterialIds :
          /\ Len(flashcards) + InFlight("generate_flashcards") < MaxFlashcards
          /\ authenticate(r, "generate_flashcards", t, [material_id |-> m])
    \/ \E r \in Serial : generate_flashcards(r)
    \/ \E r \in Serial, reply \in FlashcardReplies : generate_flashcards_generated(r, reply)
    \/ \E r \in Serial : generate_flashcards_insert(r)
    \/ \E r \in Serial, t \in BearerTokens, m \in MaterialIds :
          authenticate(r, "get_flashcards", t, [material_id |-> m])
    \/ \E r \in Serial : get_flashcards(r)

ChatNext ==
    \/ \E r \in Serial, t \in BearerTokens, m \in MaterialIds, q \in Questions :
          authenticate(r, "ask_question", t, [material_id |-> m, question |-> q])
    \/ \E r \in Serial : ask_question(r)
    \/ \E r \in Serial, reply \in ChatReplies : ask_question_answered(r, reply)

Next ==
    \/ \E r \in Serial, e \in Emails, p \in Passwords : login(r, e, p)
    \/ \E r \in Serial, t \in BearerTokens : authenticate(r, "get_me", t, None)
    \/ \E r \in Serial : get_me(r)
    \/ MaterialNext
    \/ QuizNext
    \/ FlashcardNext
    \/ ChatNext

\* two users have registered and the first tokens have expired
Registered ==
    /\ users = <<[id |-> 1, email |-> "a@x.io", full_name |-> "Ann", created_at |-> 0,
                  hashed_password |-> get_password_hash("pw1")],
                 [id |-> 2, email |-> "b@x.io", full_name |-> "Bob", created_at |-> 0,
                  hashed_password |-> get_password_hash("pw2")]>>
    /\ materials = <<>>
    /\ quizzes = <<>>
    /\ flashcards = <<>>
    /\ quiz_responses = <<>>
    /\ files = {}
    /\ clock = TickMinutes
    /\ nextId = 2
    /\ reqs = [r \in Slots |-> Idle]
    /\ resp = NoResp

\* the routes behind the bearer token, once two users have registered
Spec == Registered /\ [][Next]_vars

\* the auth routes from the empty database, over every password and name
AuthSpec == Init /\ [][AuthNext(Passwords, FullNames)]_vars

----------------------------------------------------------------------------
\* Uploads alone, on a server that can stop at any await.

\* the server process stops while the request in slot r is suspended: the
\* request is never answered; the database and the upload directory stay
Crash(r) ==
    /\ ~Free(r)
    /\ reqs' = [reqs EXCEPT ![r] = Idle]
    /\ resp' = NoResp
    /\ UNCHANGED <<stores, clock, nextId>>

UploadNext ==
    \/ MaterialNext
    \/ \E r \in Serial : Crash(r)

UploadSpec == Registered /\ [][UploadNext]_vars

----------------------------------------------------------------------------
\* Registration and the material routes together, from the empty database.

StoreNext ==
    \/ AuthNext({"pw1"}, {"Ann"})
    \/ MaterialNext

StoreSpec == Init /\ [][StoreNext]_vars

----------------------------------------------------------------------------
\* Concurrent requests beside a request whose gateway call may never return.

\* the slot of the request whose gateway call is not bound to return
Stuck == MaxReq
\* the slots of the requests beside it, taken one at a time
Others == Serial

\* user 1 has registered and uploaded a material
Uploaded ==
    /\ users = <<[id |-> 1, email |-> "a@x.io", full_name |-> "Ann", created_at |-> 0,
                  hashed_password |-> get_password_hash("pw1")]>>
    /\ materials = <<[id |-> 3, user_id |-> 1, title |-> "Notes",
                      file_type |-> <<"t", "x", "t">>, extracted_text |-> "Extracted text"]>>
    /\ files = {[id |-> 2, ext |-> <<"t", "x", "t">>]}
    /\ quizzes = <<>>
    /\ flashcards = <<>>
    /\ quiz_responses = <<>>
    /\ clock = TickMinutes
    /\ nextId = 3
    /\ reqs = [r \in Slots |-> Idle]
    /\ resp = NoResp

\* a request arrives in slot r
Arrive(r) ==
    \/ \E e \in Emails : register(r, e, "pw2", "Bob")
    \/ \E e \in Emails : login(r, e, "pw1")
    \/ \E t \in IssuedTokens, m \in MaterialIds :
          authenticate(r, "get_material", t, [material_id |-> m])
    \/ \E t \in IssuedTokens, m \in MaterialIds, qt \in QuizTypes, kt \in QuestionTypes :
          /\ Len(quizzes) + InFlight("generate_quiz") < MaxQuizzes
          /\ authenticate(r, "generate_quiz", t,
                          [material_id |-> m, quiz_type |-> qt, question_type |-> kt])
    \/ \E t \in IssuedTokens, q \in QuizIds, sub \in Submissions :
          /\ Len(quiz_responses) + InFlight("submit_quiz") < MaxResponses
          /\ authenticate(r, "submit_quiz", t, [quiz_id |-> q, quiz_response |-> sub])

\* the event loop resumes the request of slot r: the database answers, or the
\* gateway call of its generate quiz returns
Resume(r) ==
    \/ register_insert(r)
    \/ get_material(r)
    \/ generate_quiz(r)
    \/ \E reply \in QuizReplies : generate_quiz_generated(r, reply)
    \/ generate_quiz_insert(r)
    \/ submit_quiz(r)
    \/ submit_quiz_insert(r)

LiveNext ==
    \/ \E r \in Others : Arrive(r)
    \/ \E r \in Others : Resume(r)
    \/ \E t \in IssuedTokens, m \in MaterialIds, q \in Questions :
          authenticate(Stuck, "ask_question", t, [material_id |-> m, question |-> q])
    \/ ask_question(Stuck)
    \/ \E reply \in ChatReplies : ask_question_answered(Stuck, reply)

\* every request but the one in the Stuck slot is resumed whenever it can be;
\* the gateway call of the Stuck slot may return or stay out for ever
LiveSpec == Uploaded /\ [][LiveNext]_vars /\ \A r \in Others : WF_vars(Resume(r))

----------------------------------------------------------------------------
\* Grading alone: user 1 has uploaded a material and generated a quiz of n
\* questions from it, and submits once.

GradeAnswer(i) == IF i % 2 = 1 THEN <<" ", "A", "b">> ELSE <<"c", "D", "\n">>
RightAnswer(i) == IF i % 2 = 1 THEN <<"=", "a", "B", " ">> ELSE <<"\t", "C", "d", "e">>
WrongAnswer(i) == IF i % 2 = 1 THEN <<"b", "a">> ELSE <<"c", " ", "d">>

GradeQuiz(n) ==
    [id |-> 5 + n, material_id |-> 4, user_id |-> 1, title |-> <<"Notes", "practice">>,
     questions |-> [i \in 1..n |-> [id |-> 4 + i, question |-> "Q", answer |-> GradeAnswer(i),
                                    explanation |-> "E", question_type |-> "mcq"]],
     quiz_type |-> "practice", time_limit |-> 15]

\* k right answers, then w wrong ones, u pairs for unknown questions and rpt
\* repeats of the first right answer
GradeAnswers(quiz, k, w, u, rpt) ==
    [i \in 1..k |-> [question_id |-> quiz.questions[i].id, answer |-> RightAnswer(i)]]
    \o [i \in 1..w |-> [question_id |-> quiz.questions[k + i].id, answer |-> WrongAnswer(k + i)]]
    \o [i \in 1..u |-> [question_id |-> NoSuchId, answer |-> RightAnswer(i)]]
    \o [i \in 1..rpt |-> [question_id |-> quiz.questions[1].id, answer |-> RightAnswer(1)]]

GradeSubmissions(quiz) ==
    LET n == Len(quiz.questions)
        shapes == {sh \in [k : 0..n, w : 0..1, u : 0..1, rpt : 0..MaxRepeats] :
                      /\ sh.k + sh.w <= n /\ (n >= 1 \/ sh.rpt = 0)
                      /\ sh.w + sh.u + sh.rpt <= MaxRepeats}
    IN {[quiz_id |-> quiz.id,
         user_answers |-> GradeAnswers(quiz, sh.k, sh.w, sh.u, sh.rpt)] : sh \in shapes}

Graded ==
    /\ users = <<[id |-> 1, email |-> "a@x.io", full_name |-> "Ann", created_at |-> 0,
                  hashed_password |-> get_password_hash("pw1")],
                 [id |-> 2, email |-> "b@x.io", full_name |-> "Bob", created_at |-> 0,
                  hashed_password |-> get_password_hash("pw2")]>>
    /\ materials = <<[id |-> 4, user_id |-> 1, title |-> "Notes",
                      file_type |-> <<"t", "x", "t">>, extracted_text |-> "Extracted text"]>>
    /\ files = {[id |-> 3, ext |-> <<"t", "x", "t">>]}
    /\ \E n \in 0..MaxGradeQuestions :
          /\ quizzes = <<GradeQuiz(n)>>
          /\ nextId = 5 + n
    /\ flashcards = <<>>
    /\ quiz_responses = <<>>
    /\ clock = TickMinutes
    /\ reqs = [r \in Slots |-> Idle]
    /\ resp = NoResp

GradeNext ==
    \/ \E r \in Serial, quiz \in Range(quizzes) : \E sub \in GradeSubmissions(quiz) :
          /\ Len(quiz_responses) + InFlight("submit_quiz") < 1
          /\ authenticate(r, "submit_quiz",
                          create_access_token([sub |-> quiz.user_id],
                                              ACCESS_TOKEN_EXPIRE_MINUTES, clock),
                          [quiz_id |-> quiz.id, quiz_response |-> sub])
    \/ \E r \in Serial : submit_quiz(r)
    \/ \E r \in Serial : submit_quiz_insert(r)

GradeSpec == Graded /\ [][GradeNext]_vars

----------------------------------------------------------------------------
\* Properties.

MaterialScoped == {"get_material", "generate_quiz", "generate_flashcards", "ask_question"}
GatedOps == MaterialScoped \cup {"get_me", "upload_material", "get_materials",
                                 "submit_quiz", "get_flashcards"}

\* the id names a material that belongs to somebody else
ForeignMaterial(user_id, material_id) ==
    \E m \in Range(materials) : m.id = material_id /\ m.user_id # user_id

\* C1: a material-scoped request (get material, generate quiz, generate
\* flashcards, chat ask) that names another user's material is answered 404
\* without the material's data, calls the AI gateway never and has no quiz or
\* flashcard stored for it.
C1_ForeignMaterialNotFound ==
    /\ (resp.op \in MaterialScoped /\ resp.status # 401
           /\ ForeignMaterial(resp.user, resp.arg.material_id))
         => /\ resp.status = 404
            /\ resp.body = [detail |-> "Material not found"]
            /\ resp.ai = 0
    /\ \A r \in Slots :
         (reqs[r].op \in MaterialScoped /\ ForeignMaterial(reqs[r].user, reqs[r].arg.material_id))
            => reqs[r].pc = "body" /\ reqs[r].ai = 0
    /\ \A q \in Range(quizzes) : ~ForeignMaterial(q.user_id, q.material_id)
    /\ \A f \in Range(flashcards) : ~ForeignMaterial(f.user_id, f.material_id)

C1_ForeignQuizRefused ==
    /\ resp.op = "generate_quiz" /\ resp.status = 404
    /\ ForeignMaterial(resp.user, resp.arg.material_id)

\* C2: db.users never holds two documents with the same email.
C2_UniqueEmail ==
    \A i, j \in 1..Len(users) : users[i].email = users[j].email => i = j

\* C6: a token returned by register or login expires 30 minutes after it was
\* issued; a request that presents an issued token after its expiry is answered
\* 401 although the user is stored, and one that presents it before its expiry
\* runs as the token's user.
C6_TokenExpiry ==
    [][/\ (resp'.op \in {"register", "login"} /\ resp'.status = 200)
            => resp'.body.access_token.exp = clock' + 30
       /\ \A r \in Slots :
            (reqs[r].op = "idle" /\ reqs'[r].op = "get_me")
               => /\ ~(reqs'[r].token.exp < clock)
                  /\ reqs'[r].user = reqs'[r].token.sub
                  /\ \E u \in Range(users) : u.id = reqs'[r].user
       /\ (resp'.op = "get_me" /\ resp'.status = 401 /\ resp'.token \in IssuedTokens)
            => ~(clock < resp'.token.exp)]_vars

C6_ExpiredRejected ==
    /\ resp.op = "get_me" /\ resp.status = 401
    /\ resp.token \in IssuedTokens
    /\ resp.token.exp < clock

\* C7: the user a successful register(email, password, name) stored can log in
\* with that email and password, and the token of the login names the user id
\* of the token of the register.
C7_LoginAfterRegister ==
    /\ (resp.op = "register" /\ resp.status = 200)
         => \E u \in Range(users) :
               /\ u.id = resp.body.access_token.sub
               /\ u.email = resp.arg.email
               /\ verify_password(resp.arg.password, u.hashed_password)
    /\ resp.op = "login"
         => \A u \in Range(users) :
               (u.email = resp.arg.email /\ verify_password(resp.arg.password, u.hashed_password))
                  => /\ resp.status = 200
                     /\ resp.body.access_token.sub = u.id

\* C8: a register request for an email that is already stored is answered 400
\* whatever its password and name, returns no token and leaves db.users as it is.
C8_DuplicateEmailConflict ==
    [][/\ \A r \in Slots :
            (reqs[r].op = "idle" /\ reqs'[r].op = "register")
               => ~\E u \in Range(users) : u.email = reqs'[r].arg.email
       /\ (resp'.op = "register" /\ reqs' = reqs)
            => /\ resp'.status = 400
               /\ "access_token" \notin DOMAIN resp'.body
               /\ users' = users
               /\ \E u \in Range(users) : u.email = resp'.arg.email]_vars

C8_ConflictSeen ==
    /\ resp.op = "register" /\ resp.status = 400
    /\ \E u \in Range(users) :
          /\ u.email = resp.arg.email
          /\ u.full_name # resp.arg.full_name
          /\ ~verify_password(resp.arg.password, u.hashed_password)

\* the extensions the upload route is specified to take
SupportedExtensions ==
    {<<"p", "d", "f">>, <<"d", "o", "c", "x">>, <<"p", "p", "t", "x">>, <<"j", "p", "g">>,
     <<"j", "p", "e", "g">>, <<"p", "n", "g">>, <<"t", "x", "t">>}

HasDot(name) == \E i \in 1..Len(name) : name[i] = "."

\* the lower-cased text after the last dot of a name that has a dot
ExtensionOf(name) ==
    LET last == CHOOSE i \in 1..Len(name) :
                    name[i] = "." /\ \A j \in (i + 1)..Len(name) : name[j] # "."
    IN lower(SubSeq(name, last + 1, Len(name)))

UnsupportedName(name) == HasDot(name) /\ ExtensionOf(name) \notin SupportedExtensions

BadToken(token) ==
    \/ token.sig # "HS256"
    \/ token.exp < clock
    \/ ~\E u \in Range(users) : u.id = token.sub

\* C10: a request to a route other than register and login with a bad token is
\* answered 401 and its handler never runs: nothing is stored, no file is
\* written and the AI gateway is not called.
C10_BadTokenUnauthorized ==
    [][/\ \A r \in Slots :
            (reqs[r].op = "idle" /\ reqs'[r].op \in GatedOps) => ~BadToken(reqs'[r].token)
       /\ (resp'.op \in GatedOps /\ BadToken(resp'.token))
            => /\ resp'.status = 401
               /\ resp'.user = NoSuchId /\ resp'.ai = 0 /\ resp'.file = None
               /\ reqs' = reqs
               /\ UNCHANGED stores]_vars

C10_UploadUnauthorized ==
    /\ resp.op = "upload_material" /\ resp.status = 401
    /\ resp.token \in IssuedTokens /\ resp.token.exp < clock

\* the quiz a submit_quiz response is about
GradedQuiz == CHOOSE q \in Range(quizzes) : q.id = resp.arg.quiz_id
SubmitAnswered == resp.op = "submit_quiz" /\ resp.status \notin {401, 404}
Submitted == resp.arg.quiz_response.user_answers

\* the pairs that name a question of the quiz and contain its canonical answer
MatchingPairs(quiz, user_answers) ==
    {i \in 1..Len(user_answers) :
        \E q \in Range(quiz.questions) :
            /\ q.id = user_answers[i].question_id
            /\ contains(strip(lower(q.answer)), strip(lower(user_answers[i].answer)))}

\* C3: a submission to a quiz of N >= 1 questions with K matching pairs is
\* answered with correct count K, total N and score floor(100 * K / N), and the
\* QuizResponse stored for it carries that score.
C3_ScoreIsFloor ==
    (SubmitAnswered /\ Len(GradedQuiz.questions) >= 1) =>
        LET N == Len(GradedQuiz.questions)
            K == Cardinality(MatchingPairs(GradedQuiz, Submitted))
        IN /\ resp.status = 200
           /\ resp.body.correct_answers = K
           /\ resp.body.total_questions = N
           /\ resp.body.score = (100 * K) \div N
           /\ quiz_responses # <<>>
           /\ quiz_responses[Len(quiz_responses)].score = (100 * K) \div N

\* C4: every score returned by submit and every score stored in a QuizResponse
\* is an integer in 0..100.
C4_ScoreRange ==
    /\ (resp.op = "submit_quiz" /\ resp.status = 200) => resp.body.score \in 0..100
    /\ \A i \in 1..Len(quiz_responses) : quiz_responses[i].score \in 0..100

\* C5: pairs for unknown question ids raise no error and count for nothing:
\* the request succeeds, the total is the number of questions, the correct count
\* is that of the submission without them, and a submission with no pair for a
\* known question scores 0.
C5_UnknownIgnored ==
    SubmitAnswered =>
        LET known == {q.id : q \in Range(GradedQuiz.questions)}
            without == SelectSeq(Submitted, LAMBDA ua : ua.question_id \in known)
        IN /\ resp.status = 200
           /\ resp.body.total_questions = Len(GradedQuiz.questions)
           /\ resp.body.correct_answers = Cardinality(MatchingPairs(GradedQuiz, without))
           /\ without = <<>> => resp.body.score = 0

\* the routes that address one material or one quiz by its id
IdScoped == MaterialScoped \cup {"submit_quiz"}

\* the body of the 404 of a route
NotFoundBody(op) ==
    IF op = "submit_quiz" THEN [detail |-> "Quiz not found"]
    ELSE [detail |-> "Material not found"]

\* the caller does not own a record with the id the request names: the id is
\* absent, or it is the id of somebody else's record
NotOwned(op, user_id, a) ==
    IF op = "submit_quiz"
    THEN ~\E q \in Range(quizzes) : q.id = a.quiz_id /\ q.user_id = user_id
    ELSE ~\E m \in Range(materials) : m.id = a.material_id /\ m.user_id = user_id

\* the id is the id of somebody else's record
Foreign(op, user_id, a) ==
    IF op = "submit_quiz"
    THEN \E q \in Range(quizzes) : q.id = a.quiz_id /\ q.user_id # user_id
    ELSE ForeignMaterial(user_id, a.material_id)

OwnMaterials(user_id) == SelectSeq(materials, LAMBDA m : m.user_id = user_id)
OwnQuizzes(user_id) == SelectSeq(quizzes, LAMBDA q : q.user_id = user_id)

\* C11: in get material, generate quiz, generate flashcards, chat ask and
\* submit quiz, an id of another user's record is answered exactly as an id
\* that does not exist, with 404 and the route's one not-found body, and what
\* a lookup gives a caller is what it gives on the caller's own records alone.
C11_ForeignAsAbsent ==
    /\ (resp.op \in IdScoped /\ resp.status # 401 /\ NotOwned(resp.op, resp.user, resp.arg))
         => /\ resp.status = 404
            /\ resp.body = NotFoundBody(resp.op)
    /\ \A u \in Range(users) :
         /\ \A id \in MaterialIds :
              LET own == OwnMaterials(u.id)
              IN find_material(id, u.id) = find_one(own, {i \in DOMAIN own : own[i].id = id})
         /\ \A id \in QuizIds :
              LET own == OwnQuizzes(u.id)
              IN find_quiz(id, u.id) = find_one(own, {i \in DOMAIN own : own[i].id = id})

C11_ForeignQuizNotFound ==
    /\ resp.op = "submit_quiz" /\ resp.status = 404
    /\ Foreign("submit_quiz", resp.user, resp.arg)
    /\ resp.body = NotFoundBody("submit_quiz")

\* the gateway call raised, its text holds no JSON document, or the document
\* lacks the list named field or one of an item's fields
FailedReply(reply, field) ==
    \/ reply.raised
    \/ reply.form \notin {"json", "wrapped"}
    \/ field \notin DOMAIN reply.data
    \/ \E i \in 1..Len(reply.data[field]) :
          {"question", "answer", "explanation"} \ DOMAIN reply.data[field][i] # {}

\* C12: when the gateway call of generate quiz or generate flashcards raises
\* or its response cannot be parsed into the expected fields, the request is
\* answered 500 and is over, and quizzes and flashcards are left as they were.
C12_GatewayFailureSurfaced ==
    [][\A r \in Slots :
          /\ \A reply \in QuizReplies :
                (FailedReply(reply, "questions") /\ generate_quiz_generated(r, reply))
                   => /\ resp'.op = "generate_quiz" /\ resp'.status = 500
                      /\ reqs'[r] = Idle
                      /\ quizzes' = quizzes /\ flashcards' = flashcards
          /\ \A reply \in FlashcardReplies :
                (FailedReply(reply, "flashcards") /\ generate_flashcards_generated(r, reply))
                   => /\ resp'.op = "generate_flashcards" /\ resp'.status = 500
                      /\ reqs'[r] = Idle
                      /\ quizzes' = quizzes /\ flashcards' = flashcards]_vars

C12_QuizGenerationFailed ==
    /\ resp.op = "generate_quiz" /\ resp.status = 500 /\ resp.ai = 1
    /\ resp.body = [detail |-> "Error generating quiz"]
    /\ \A q \in Range(quizzes) : q.material_id # resp.arg.material_id

\* C13: the file of an upload is stored before the gateway is called and the
\* material is inserted last: a material is only ever inserted by an upload
\* whose file is already stored, an extraction failure leaves the file and
\* inserts nothing, no step removes a file, and so, crash or no crash, there
\* are never more materials than stored files.
C13_InsertLast ==
    [][/\ materials' # materials
            => \E r \in Slots :
                  /\ reqs[r].op = "upload_material" /\ reqs[r].pc = "insert"
                  /\ reqs[r].file \in files
                  /\ materials' = Append(materials, reqs[r].loc)
       /\ \A r \in Slots :
            (reqs[r].op = "upload_material" /\ reqs[r].pc \in {"extract", "insert"})
               => reqs[r].file \in files
       /\ (resp'.op = "upload_material" /\ resp'.status = 500)
            => /\ resp'.file \in files'
               /\ materials' = materials
       /\ files \subseteq files'
       /\ Len(materials') <= Cardinality(files')]_vars

\* the server stopped during an upload: its file is stored, no material is
C13_OrphanedFile ==
    /\ files # {} /\ materials = <<>>
    /\ resp = NoResp /\ \A r \in Slots : Free(r)

\* C14: the material id a successful upload returns is the id of the stored
\* Material and the identifier its file was stored under: the stored file is
\* named by the Material id and the extension.
C14_MaterialIdIsFileId ==
    (resp.op = "upload_material" /\ resp.status = 200)
       => /\ \E m \in Range(materials) : m.id = resp.body.material_id
          /\ resp.body.material_id = resp.file.id
          /\ [id |-> resp.body.material_id, ext |-> resp.file.ext] \in files

\* C15: a submission by the owner of a stored quiz, whatever questions the
\* quiz was generated with, is answered 200 with score, correct count and
\* total, and a QuizResponse is stored for it; an authenticated submit fails
\* in one way only, 404 for a quiz that is absent or not the caller's.
C15_SubmitCompletes ==
    (resp.op = "submit_quiz" /\ resp.status # 401)
       => IF NotOwned("submit_quiz", resp.user, resp.arg)
          THEN resp.status = 404
          ELSE /\ resp.status = 200
               /\ DOMAIN resp.body = {"score", "correct_answers", "total_questions"}
               /\ quiz_responses # <<>>
               /\ quiz_responses[Len(quiz_responses)].user_answers = Submitted

\* C16: the QuizResponse stored for a submission names the quiz of the request
\* path, the one that was graded and that the submitting user owns, whatever
\* quiz id the body carries; so every stored QuizResponse names a stored quiz.
C16_ResponseNamesGradedQuiz ==
    /\ (resp.op = "submit_quiz" /\ resp.status = 200)
         => /\ quiz_responses # <<>>
            /\ quiz_responses[Len(quiz_responses)].quiz_id = resp.arg.quiz_id
            /\ find_quiz(resp.arg.quiz_id, resp.user) # None
    /\ \A i \in 1..Len(quiz_responses) :
          \E q \in Range(quizzes) : q.id = quiz_responses[i].quiz_id

IsPrefix(s, t) == Len(s) <= Len(t) /\ SubSeq(t, 1, Len(s)) = s

C18_OthersComplete ==
    \A r \in Others : (~Free(r)) ~> Free(r)

\* a generate quiz request got its quiz while the Stuck request was suspended
\* on its gateway call
C18_AnsweredBesideStuck ==
    /\ reqs[Stuck].op = "ask_question" /\ reqs[Stuck].pc = "chat"
    /\ resp.op = "generate_quiz" /\ resp.status = 200

====
